---- MODULE Spec2Model ----
(***************************************************************************)
(* Drag-state tracking and drop handling of the file-drop-target component *)
(* of ember-file-drop-target.                                              *)
(*                                                                         *)
(* The repository holds two variants of the component:                     *)
(*   Current : src/unnamed/part_000 (flags isDraggingOver / isDragging /   *)
(*             isDropped on the component instance)                        *)
(*   Legacy  : src/addon/components/file-drop-target.js (the CSS class     *)
(*             file-drop-target-drag-over on the hovered elements)         *)
(* The variable `variant` says which of the two the page runs.             *)
(***************************************************************************)
EXTENDS Integers, Sequences, FiniteSets, TLC

\* ------------------------------------------------------------------ bounds
\* most dragenter events the browser has delivered without their dragleave
MaxPending == 2
\* longest dropped file list
MaxFiles == 2
\* most component instances in the DOM at a time
MaxMounted == 2
\* the model stops delivering events that would push a dragcount beyond what
\* MaxMounted handlers make of MaxPending events
MaxCount == MaxMounted * MaxPending
\* most handlers of one kind in the registry of the root
MaxListeners == 3

\* ------------------------------------------------------------- the page
Current == "part_000"
Legacy == "file-drop-target.js"
Variants == {Current, Legacy}

\* Component instances that the page can mount.  A and B are siblings,
\* C is rendered inside A.
Targets == {"A", "B", "C"}

Root == "root"
Elements == {Root, "elA", "spanA", "elC", "elB"}

\* this.$() : the element a component renders to
Element(t) == CASE t = "A" -> "elA" [] t = "B" -> "elB" [] t = "C" -> "elC"

\* the DOM tree: root > (elA > (spanA, elC), elB)
Parent(el) == CASE el = "elA" -> Root
                [] el = "elB" -> Root
                [] el = "spanA" -> "elA"
                [] el = "elC" -> "elA"
                [] OTHER -> Root

\* the component in whose template an element is rendered
Owner(el) == CASE el = "elA" -> "A"
               [] el = "spanA" -> "A"
               [] el = "elC" -> "C"
               [] el = "elB" -> "B"
               [] OTHER -> "A"

\* files a user can drag in, and their declared MIME types
Files == {"png", "txt", "raw"}
Type(f) == CASE f = "png" -> "image/png" [] f = "txt" -> "text/plain" [] OTHER -> ""

\* allowedTypes: the default /.+/ and an image-only pattern /^image\//
AnyType == "/.+/"
ImageOnly == "/^image\\//"
Patterns == {AnyType, ImageOnly}

\* file.type.match(allowedTypes): truthy or null
Match(type, pattern) ==
  IF pattern = AnyType THEN type # ""
  ELSE type \in {"image/png"}

\* e.dataTransfer.files is a FileList in a browser (it has length and indices
\* but none of slice, filter, forEach); a test double hands in an Array
Kinds == {"Array", "FileList"}

RECURSIVE SeqsUpTo(_)
SeqsUpTo(n) ==
  IF n = 0 THEN {<< >>}
  ELSE LET shorter == SeqsUpTo(n - 1)
       IN shorter \cup {Append(s, f) : s \in {x \in shorter : Len(x) = n - 1}, f \in Files}

Range(s) == {s[i] : i \in 1..Len(s)}
NoRepeat(s) == Cardinality(Range(s)) = Len(s)
FileLists == {s \in SeqsUpTo(MaxFiles) : NoRepeat(s)}

\* an optional value: undefined or a value
None == << >>
Some(x) == <<x>>

\* ------------------------------------------------------------------ state
VARIABLES
  variant,     \* which component file the page runs
  mounted,     \* the component instances that are in the DOM
  config,      \* per instance: allowMultiple, allowedTypes, hooks supplied
  listeners,   \* the dragenter/dragleave handlers on the root, in registration order
  bodyListeners, \* file-drop-target.js: the dragstart/dragover handlers on the body
  draggingClass, \* the body carries the class file-drop-target-dragging
  dropEffect,  \* dataTransfer.dropEffect as the handlers of the last event left it
  dragcount,   \* jQuery data 'dragcount', by element; no entry: no data
  dragOverClass, \* the elements carrying the class file-drop-target-drag-over
  inst,        \* per instance: isDraggingOver, isDragging, isDropped, file, files
  pending,     \* browser: dragenters delivered on an element without their dragleave
  lastDrop,    \* the drop event handled last, if the last event was a drop
  calls,       \* what the drop handlers of the last event did, in order
  onlyEnterLeave, \* only dragenter/dragleave events since the page was last at rest
  scope        \* the part of the input space a specification explores

vars == <<variant, mounted, config, listeners, bodyListeners, draggingClass, dropEffect,
          dragcount, dragOverClass, inst, pending, lastDrop, calls, onlyEnterLeave, scope>>

\* a fresh instance: part_000:21, 30, 109, 110; isDropped, file, files are undefined
DefaultConfig == [allowMultiple |-> FALSE, allowedTypes |-> AnyType, hooks |-> FALSE]
NewInstance == [isDraggingOver |-> FALSE, isDragging |-> FALSE, isDropped |-> FALSE,
                file |-> None, files |-> None]

Configs == [allowMultiple : BOOLEAN, allowedTypes : Patterns, hooks : BOOLEAN]

\* an element is in the document
Exists(el) == el = Root \/ Owner(el) \in mounted

\* .filter('.file-drop-target') : the element of a mounted component
IsTargetElement(el) == \E t \in mounted : Element(t) = el

\* $(e.target).parents().addBack(), in document order (outermost first)
RECURSIVE Path(_)
Path(el) == IF el = Root THEN <<Root>> ELSE Append(Path(Parent(el)), el)

\* the chain without .parents(): the target of the event and the root alone
ChainNoParents(el) ==
  SelectSeq(IF el = Root THEN <<Root>> ELSE <<Root, el>>,
            LAMBDA x : x = Root \/ IsTargetElement(x))

\* ... .filter('.file-drop-target').add($root), in document order
Chain(el) == SelectSeq(Path(el), LAMBDA x : x = Root \/ IsTargetElement(x))

\* $(el).data('dragcount') || 0
Data(cnt, el) == IF el \in DOMAIN cnt THEN cnt[el] ELSE 0

\* $(el).data('dragcount', v)
SetData(cnt, el, v) == [x \in (DOMAIN cnt) \cup {el} |-> IF x = el THEN v ELSE cnt[x]]

\* $(els).removeData(key): 'dragcount' is the only key the component ever stores
RemoveData(cnt, els, key) ==
  IF key = "dragcount" THEN [x \in (DOMAIN cnt) \ els |-> cnt[x]] ELSE cnt

\* ------------------------------------------------- hooks of the component
\* a handler works on the page memory s = [cnt, cls, inst]
didDragOver(s, self) == [s EXCEPT !.inst[self].isDraggingOver = TRUE]

\* a didDragOff that clears the flag of every instance
didDragOffAll(s, self) ==
  [s EXCEPT !.inst = [t \in Targets |-> [@[t] EXCEPT !.isDraggingOver = FALSE]]]

didDragOff(s, self) == [s EXCEPT !.inst[self].isDraggingOver = FALSE]

didDragOverRoot(s, self) ==
  [s EXCEPT !.inst[self].isDragging = TRUE, !.cls = @ \cup {Root}]

didDragOffRoot(s, self) ==
  [s EXCEPT !.inst[self].isDragging = FALSE, !.cls = @ \ {Root}]

dragOverElement(s, el) == [s EXCEPT !.cls = @ \cup {el}]

dragOffElement(s, el) == [s EXCEPT !.cls = @ \ {el}]

\* the body of .each(function() { ... }) for one element of the chain
EachElement(s, self, el, type) ==
  LET offset == IF type = "dragenter" THEN 1 ELSE -1
      dragCount == Data(s.cnt, el) + offset
      s1 == [s EXCEPT !.cnt = SetData(@, el, dragCount)]
  IN IF variant = Current
     THEN LET isRoot == (el = Root)
          IN IF dragCount > 0
             THEN (IF isRoot THEN didDragOverRoot(s1, self) ELSE didDragOver(s1, self))
             ELSE (IF isRoot THEN didDragOffRoot(s1, self) ELSE didDragOff(s1, self))
     ELSE IF dragCount > 0 THEN dragOverElement(s1, el) ELSE dragOffElement(s1, el)

\* calculateDropCount(e) of the instance self, over the chain of e.target
RECURSIVE EachOf(_, _, _, _)
EachOf(s, self, chain, type) ==
  IF chain = << >> THEN s
  ELSE EachOf(EachElement(s, self, Head(chain), type), self, Tail(chain), type)

calculateDropCount(s, self, target, type) == EachOf(s, self, Chain(target), type)

\* jQuery runs every handler registered for the event, in registration order
RECURSIVE Dispatch(_, _, _, _)
Dispatch(s, handlers, target, type) ==
  IF handlers = << >> THEN s
  ELSE Dispatch(calculateDropCount(s, Head(handlers), target, type),
                Tail(handlers), target, type)

\* ------------------------------------------------------------ page at rest
Memory == [cnt |-> dragcount, cls |-> dragOverClass, inst |-> inst]

AtRest(cnt, cls, ins, pend) ==
  /\ \A el \in DOMAIN cnt : cnt[el] = 0
  /\ cls = {}
  /\ \A t \in Targets : ~ins[t].isDraggingOver /\ ~ins[t].isDragging
  /\ \A el \in Elements : pend[el] = 0

PendingTotal(pend) ==
  pend[Root] + pend["elA"] + pend["spanA"] + pend["elC"] + pend["elB"]

NoPending == [el \in Elements |-> 0]

WithinCount(cnt) == \A el \in DOMAIN cnt : cnt[el] <= MaxCount /\ cnt[el] >= -MaxCount

\* Hover explores the enter/leave bookkeeping of all three components under
\* the default configuration, with drops of no file or of one file; Drops
\* explores every configuration and every file list on the component A, with
\* one element entered at a time.
\* Listeners explores the registry of handlers of the siblings A and B: every
\* event of a drag (its drops carry no file), and the registration and the
\* teardown run again.
Hover == "hover"
Drops == "drops"
Listeners == "listeners"
ScopeTargets == IF scope = Hover THEN Targets ELSE IF scope = Drops THEN {"A"} ELSE {"A", "B"}
ScopeConfigs == IF scope = Drops THEN Configs ELSE {DefaultConfig}
ScopeLists ==
  IF scope = Drops THEN FileLists
  ELSE IF scope = Hover THEN {l \in FileLists : l \in {<< >>, <<"png">>}}
  ELSE {l \in FileLists : l = << >>}
ScopePending == IF scope = Hover THEN MaxPending ELSE 1

\* -------------------------------------------------------------------- Init
InitPage ==
  /\ variant \in Variants
  /\ mounted = {}
  /\ config = [t \in Targets |-> DefaultConfig]
  /\ listeners = << >>
  /\ bodyListeners = << >>
  /\ draggingClass = FALSE
  /\ dropEffect = None
  /\ dragcount = << >>
  /\ dragOverClass = {}
  /\ inst = [t \in Targets |-> NewInstance]
  /\ pending = NoPending
  /\ lastDrop = None
  /\ calls = << >>
  /\ onlyEnterLeave = TRUE

Init == InitPage /\ scope = Hover

InitDrops == InitPage /\ scope = Drops

InitListeners == InitPage /\ scope = Listeners

\* ----------------------------------------------------------------- actions
\* setupEventListeners: $root.on(`dragenter.${id} dragleave.${id}`, ...)
setupEventListeners(ls, self) == Append(ls, self)

\* teardownEventListeners: $root.off(`dragenter.${id}`), $root.off(`dragleave.${id}`)
teardownEventListeners(ls, self) == SelectSeq(ls, LAMBDA h : h # self)

\* an entry of the registry of the body: the event and the namespace
Listener(event, id) == [event |-> event, id |-> id]

\* file-drop-target.js: $body.on(`dragstart.${id}`, ...), $body.on(`dragover.${id}`, ...);
\* the scopes Hover and Drops send neither event and leave these handlers out
setupBodyListeners(ls, self) ==
  IF variant = Legacy /\ scope = Listeners
  THEN ls \o <<Listener("dragstart", self), Listener("dragover", self)>>
  ELSE ls

\* [ 'dragenter', 'dragleave', 'dragover', 'drop' ].forEach(...)
TornDown == {"dragenter", "dragleave", "dragover", "drop"}

\* $('body').off(event + '.' + id) for each of these events
teardownBodyListeners(ls, self) ==
  SelectSeq(ls, LAMBDA h : ~(h.id = self /\ h.event \in TornDown))

\* the handlers of one event on the body, in registration order
BodyHandlers(event) ==
  LET hs == SelectSeq(bodyListeners, LAMBDA h : h.event = event)
  IN [i \in 1..Len(hs) |-> hs[i].id]

\* the registry holds at most MaxListeners handlers of a kind
RoomToRegister ==
  /\ Len(listeners) < MaxListeners
  /\ Len(BodyHandlers("dragstart")) < MaxListeners

\* didInsertElement of a new instance t, created with the configuration c
Mount(t, c) ==
  /\ t \in ScopeTargets /\ c \in ScopeConfigs
  /\ t \notin mounted
  /\ Cardinality(mounted) < MaxMounted
  /\ RoomToRegister
  /\ t = "C" => "A" \in mounted
  /\ mounted' = mounted \cup {t}
  /\ config' = [config EXCEPT ![t] = c]
  /\ inst' = [inst EXCEPT ![t] = NewInstance]
  /\ listeners' = setupEventListeners(listeners, t)
  /\ bodyListeners' = setupBodyListeners(bodyListeners, t)
  /\ lastDrop' = None
  /\ calls' = << >>
  /\ dropEffect' = None
  /\ onlyEnterLeave' = AtRest(dragcount, dragOverClass, inst', pending)
  /\ UNCHANGED <<variant, draggingClass, dragcount, dragOverClass, pending, scope>>

\* willDestroyElement of t; its element (with its data and classes) leaves the DOM
Unmount(t) ==
  /\ t \in mounted
  /\ t = "A" => "C" \notin mounted
  /\ LET gone == {el \in Elements : el # Root /\ Owner(el) = t}
     IN /\ dragcount' = [el \in (DOMAIN dragcount) \ gone |-> dragcount[el]]
        /\ dragOverClass' = dragOverClass \ gone
        /\ pending' = [el \in Elements |-> IF el \in gone THEN 0 ELSE pending[el]]
  /\ mounted' = mounted \ {t}
  /\ config' = [config EXCEPT ![t] = DefaultConfig]
  /\ inst' = [inst EXCEPT ![t] = NewInstance]
  /\ listeners' = teardownEventListeners(listeners, t)
  /\ bodyListeners' = teardownBodyListeners(bodyListeners, t)
  /\ lastDrop' = None
  /\ calls' = << >>
  /\ dropEffect' = None
  /\ onlyEnterLeave' = AtRest(dragcount', dragOverClass', inst', pending')
  /\ UNCHANGED <<variant, draggingClass, scope>>

\* one dragenter or dragleave event of the browser on the element target
DragEvent(type, target) ==
  LET s == Dispatch(Memory, listeners, target, type)
  IN /\ WithinCount(s.cnt)
     /\ dragcount' = s.cnt
     /\ dragOverClass' = s.cls
     /\ inst' = s.inst
     /\ lastDrop' = None
     /\ calls' = << >>
     /\ dropEffect' = None
     /\ onlyEnterLeave' = (onlyEnterLeave \/ AtRest(dragcount', dragOverClass', inst', pending'))
     /\ UNCHANGED <<variant, mounted, config, listeners, bodyListeners, draggingClass, scope>>

DragEnter(target) ==
  /\ Exists(target)
  /\ PendingTotal(pending) < ScopePending
  /\ pending' = [pending EXCEPT ![target] = @ + 1]
  /\ DragEvent("dragenter", target)

\* the browser sends a dragleave only to an element the pointer has entered
DragLeave(target) ==
  /\ Exists(target)
  /\ pending[target] > 0
  /\ pending' = [pending EXCEPT ![target] = @ - 1]
  /\ DragEvent("dragleave", target)

\* ------------------------------------------------------------ drop handler
\* an entry of the trace of a drop: the instance, what it did, the file
Call(by, what, file) == [by |-> by, what |-> what, file |-> file]

\* a filter that lets every file through
AcceptedAll(files, pattern) == files

\* files.filter((file) => { ... }) : the files the pattern accepts, in order
Accepted(files, pattern) == SelectSeq(files, LAMBDA f : Match(Type(f), pattern))

\* ... and, as the filter meets them, the notifications for the others
Rejections(self, files, pattern) ==
  LET rejected == SelectSeq(files, LAMBDA f : ~Match(Type(f), pattern))
  IN [i \in 1..Len(rejected) |-> Call(self, "invalidFileType", rejected[i])]

\* files.forEach(this.fileWasDropped.bind(this)) / files.forEach(this.fileDropped.bind(this))
Deliveries(self, files) == [i \in 1..Len(files) |-> Call(self, "fileDropped", files[i])]

\* the callbacks reach the consumer when it has supplied them
Notify(c, entries) == IF c.hooks THEN entries ELSE << >>

\* if (allowMultiple) set('files', files) else set('file', files[0])
Expose(ins, allowMultiple, files) ==
  IF allowMultiple THEN [ins EXCEPT !.files = Some(files)]
  ELSE [ins EXCEPT !.file = IF files = << >> THEN None ELSE Some(Head(files))]

\* a TypeError leaves the handler and the dispatch of the event
Throw(d, self) == [d EXCEPT !.log = Append(@, Call(self, "TypeError", "")), !.threw = TRUE]

\* files.slice(0, 1): an Array has slice, a FileList has not
Slice(files) == SubSeq(files, 1, 1)

\* the early return left out
NoFilesUnchecked(files) == FALSE

\* if (files.length === 0) return
NoFiles(files) == Len(files) = 0

\* the test with allowMultiple the wrong way round
SingleWhenMultiple(files, allowMultiple) == Len(files) > 1 /\ allowMultiple

\* else if (files.length > 1 && !allowMultiple)
Single(files, allowMultiple) == Len(files) > 1 /\ ~allowMultiple

\* part_000: drop(e), lines 199-224, after the reset
dropFilesCurrent(d, self, files, kind) ==
  LET c == config[self]
      single == Single(files, c.allowMultiple)
  IN IF NoFiles(files) THEN d
     ELSE IF single /\ kind = "FileList" THEN Throw(d, self)
     ELSE LET kept == IF single THEN Slice(files) ELSE files
              ok == Accepted(kept, c.allowedTypes)
              d1 == [d EXCEPT !.log = @ \o Notify(c, Rejections(self, kept, c.allowedTypes))]
              d2 == [d1 EXCEPT !.inst[self].isDropped = TRUE,
                               !.log = Append(@, Call(self, "isDropped", ""))]
              d3 == [d2 EXCEPT !.log = @ \o Notify(c, Deliveries(self, ok))]
          IN [d3 EXCEPT !.inst[self] = Expose(@, c.allowMultiple, ok),
                        !.log = Append(@, Call(self, "output", ""))]

\* part_000: drop(e)
dropCurrent(d, self, files, kind) ==
  LET d0 == [d EXCEPT !.log = Append(@, Call(self, "drop", ""))]
      d1 == didDragOffRoot(didDragOff(d0, self), self)
      tracked == {el \in Elements : IsTargetElement(el)} \cup {Root}
      d2 == [d1 EXCEPT !.cnt = RemoveData(@, tracked, "dragcount")]
  IN dropFilesCurrent(d2, self, files, kind)

\* file-drop-target.js: drop(e)
dropLegacy(d, self, files, kind) ==
  LET c == config[self]
      d0 == [d EXCEPT !.log = Append(@, Call(self, "drop", ""))]
      d1 == [d0 EXCEPT !.cnt = RemoveData(@, {Element(self), Root}, "dragCount")]
      single == Single(files, c.allowMultiple)
  IN IF NoFiles(files) THEN d1
     ELSE IF ~single /\ kind = "FileList" THEN Throw(d1, self)
     ELSE LET kept == IF single THEN <<files[1]>> ELSE files
              ok == Accepted(kept, c.allowedTypes)
              d2 == [d1 EXCEPT !.log = @ \o Notify(c, Rejections(self, kept, c.allowedTypes))]
              d3 == [d2 EXCEPT !.log = @ \o Notify(c, Deliveries(self, ok))]
          IN [d3 EXCEPT !.inst[self] = Expose(@, c.allowMultiple, ok),
                        !.log = Append(@, Call(self, "output", ""))]

drop(d, self, files, kind) ==
  IF variant = Current THEN dropCurrent(d, self, files, kind)
  ELSE dropLegacy(d, self, files, kind)

\* the components whose element holds the target of the event, innermost
\* first: the order in which the drop event reaches their drop(e)
RECURSIVE Reverse(_)
Reverse(q) == IF q = << >> THEN << >> ELSE Append(Reverse(Tail(q)), Head(q))

DropHandlers(target) ==
  LET els == SelectSeq(Reverse(Path(target)), IsTargetElement)
  IN [i \in 1..Len(els) |-> Owner(els[i])]

RECURSIVE Bubble(_, _, _, _)
Bubble(d, handlers, files, kind) ==
  IF handlers = << >> \/ d.threw THEN d
  ELSE Bubble(drop(d, Head(handlers), files, kind), Tail(handlers), files, kind)

\* one drop event of the browser on the element target; the drag is over
Drop(target, files, kind) ==
  /\ Exists(target)
  /\ files \in ScopeLists
  /\ pending[target] > 0
  /\ DropHandlers(target) # << >>
  /\ LET d == Bubble([cnt |-> dragcount, cls |-> dragOverClass, inst |-> inst,
                      log |-> << >>, threw |-> FALSE],
                     DropHandlers(target), files, kind)
     IN /\ dragcount' = d.cnt
        /\ dragOverClass' = d.cls
        /\ inst' = d.inst
        /\ calls' = d.log
  /\ lastDrop' = Some([target |-> target, files |-> files, kind |-> kind])
  /\ pending' = NoPending
  /\ dropEffect' = None
  /\ onlyEnterLeave' = AtRest(dragcount', dragOverClass', inst', pending')
  /\ UNCHANGED <<variant, mounted, config, listeners, bodyListeners, draggingClass, scope>>

\* ------------------------------------------- dragstart, dragover, registry
\* $(el).data('dropcount'): no code stores this key, the read gives undefined
DataDropcount(cnt, el) == None

\* getDropEffect(): 'copy' if this.$().data('dropcount') > 0, else 'none'
\* (undefined > 0 is false)
getDropEffect(cnt, self) ==
  LET dropcount == DataDropcount(cnt, Element(self))
  IN IF dropcount # None /\ dropcount[1] > 0 THEN "copy" ELSE "none"

\* the handlers of the mounted components and of the body that a dragstart or
\* a dragover on target reaches: the event bubbles from the innermost
\* component to the body, whose handlers run in registration order
EventHandlers(event, target) ==
  (IF variant = Legacy \/ event = "dragover" THEN DropHandlers(target) ELSE << >>)
    \o BodyHandlers(event)

\* one dragstart event on the element target;
\* file-drop-target.js: dragStart() adds the class file-drop-target-dragging
DragStart(target) ==
  /\ Exists(target)
  /\ PendingTotal(pending) = 0
  /\ LET hs == EventHandlers("dragstart", target)
     IN /\ calls' = [i \in 1..Len(hs) |-> Call(hs[i], "dragStart", "")]
        /\ draggingClass' = (draggingClass \/ hs # << >>)
  /\ lastDrop' = None
  /\ dropEffect' = None
  /\ onlyEnterLeave' = FALSE
  /\ UNCHANGED <<variant, mounted, config, listeners, bodyListeners, dragcount,
                 dragOverClass, inst, pending, scope>>

\* one dragover event on the element target, which the pointer has entered;
\* part_000: dragOver(e) { e.preventDefault(); }
\* file-drop-target.js: dragOver(e) also assigns dataTransfer.dropEffect
DragOver(target) ==
  /\ Exists(target)
  /\ pending[target] > 0
  /\ LET hs == EventHandlers("dragover", target)
     IN /\ calls' = [i \in 1..Len(hs) |-> Call(hs[i], "dragOver", "")]
        /\ dropEffect' = IF variant = Current \/ hs = << >> THEN None
                         ELSE Some(getDropEffect(dragcount, hs[Len(hs)]))
  /\ lastDrop' = None
  /\ onlyEnterLeave' = FALSE
  /\ UNCHANGED <<variant, mounted, config, listeners, bodyListeners, draggingClass,
                 dragcount, dragOverClass, inst, pending, scope>>

\* setupEventListeners() of the mounted instance t, run once more while no
\* drag is in progress
Attach(t) ==
  /\ t \in mounted
  /\ PendingTotal(pending) = 0
  /\ RoomToRegister
  /\ listeners' = setupEventListeners(listeners, t)
  /\ bodyListeners' = setupBodyListeners(bodyListeners, t)
  /\ calls' = <<Call(t, "setupEventListeners", "")>>
  /\ lastDrop' = None
  /\ dropEffect' = None
  /\ onlyEnterLeave' = FALSE
  /\ UNCHANGED <<variant, mounted, config, draggingClass, dragcount, dragOverClass,
                 inst, pending, scope>>

\* this.$() of a component that has no element is undefined
HasElement(t) == t \in mounted

\* teardownEventListeners() run by hand for an instance t that has been
\* destroyed (a second teardown) or was never inserted. file-drop-target.js: this.$().off(event) is a
\* TypeError when this.$() is undefined; the $('body').off before it finds
\* no handler of a component that has no element.
Teardown(t) ==
  /\ t \in ScopeTargets
  /\ t \notin mounted
  /\ IF variant = Legacy /\ ~HasElement(t)
     THEN /\ calls' = <<Call(t, "teardownEventListeners", ""), Call(t, "TypeError", "")>>
          /\ UNCHANGED <<listeners, bodyListeners>>
     ELSE /\ calls' = <<Call(t, "teardownEventListeners", "")>>
          /\ listeners' = teardownEventListeners(listeners, t)
          /\ bodyListeners' = teardownBodyListeners(bodyListeners, t)
  /\ lastDrop' = None
  /\ dropEffect' = None
  /\ onlyEnterLeave' = FALSE
  /\ UNCHANGED <<variant, mounted, config, draggingClass, dragcount, dragOverClass,
                 inst, pending, scope>>

\* ------------------------------------------------------------ what shows
\* the own hover signal of a component: isDraggingOver (part_000), the class
\* file-drop-target-drag-over on its element (file-drop-target.js)
OwnHover(t) ==
  IF variant = Current THEN inst[t].isDraggingOver ELSE Element(t) \in dragOverClass

\* the page-wide signal as a component shows it: isDragging (part_000), the
\* class file-drop-target-drag-over on the body (file-drop-target.js)
RootFlag(t) ==
  IF variant = Current THEN inst[t].isDragging ELSE Root \in dragOverClass

\* the components whose drop(e) ran for the last event
Dropped(t) == \E i \in 1..Len(calls) : calls[i] = Call(t, "drop", "")

\* drop(e) of t reached the assignment of file / files
Completed(t) == \E i \in 1..Len(calls) : calls[i] = Call(t, "output", "")

\* how often the last drop made t invoke a callback with the file f
Count(t, what, f) == Cardinality({i \in 1..Len(calls) : calls[i] = Call(t, what, f)})

\* the file list of the last drop
DroppedFiles == IF lastDrop = None THEN << >> ELSE lastDrop[1].files

\* what t exposes holds only files of a type that its pattern allows
OutputAllowed(t) ==
  /\ \A i \in 1..Len(inst[t].file) : Match(Type(inst[t].file[i]), config[t].allowedTypes)
  /\ \A i \in 1..Len(inst[t].files) :
       \A f \in Range(inst[t].files[i]) : Match(Type(f), config[t].allowedTypes)

\* the elements of A's subtree
InsideA == {"elA", "spanA", "elC"}

\* ------------------------------------------------------------------ claims
\* C1: with the siblings A and B mounted, a dragenter on A's element or on a
\* descendant of it leaves B's own hover flag false, and the root flag of
\* both A and B is true afterwards.
C1_HoverIndependence ==
  [][\A el \in InsideA :
       (DragEnter(el) /\ {"A", "B"} \subseteq mounted /\ ~OwnHover("B"))
         => (~OwnHover("B") /\ RootFlag("A") /\ RootFlag("B"))']_vars

\* C2: between events, the own hover flag of every mounted component is true
\* exactly when the dragcount of its own element is > 0.
C2_OwnFlagIffOwnCount ==
  \A t \in mounted : OwnHover(t) <=> (Data(dragcount, Element(t)) > 0)

\* C3: between events, the page-wide flag of every mounted component is true
\* exactly when the dragcount of the root is > 0.
C3_RootFlagIffRootCount ==
  \A t \in mounted : RootFlag(t) <=> (Data(dragcount, Root) > 0)

\* C4: after a sequence of dragenter/dragleave events, started with the page
\* at rest, in which every enter has met its leave, every dragcount is 0 and
\* both flags of every mounted component are false.
C4_BalancedEvents ==
  (onlyEnterLeave /\ pending = NoPending)
    => /\ \A el \in Elements : Data(dragcount, el) = 0
       /\ \A t \in mounted : ~OwnHover(t) /\ ~RootFlag(t)

\* C5: right after a component has handled a drop, no drop-target element and
\* not the root has a dragcount other than 0/absent, and the own hover flag
\* and the root flag of that component are false.
C5_PostDropReset ==
  \A t \in mounted :
    Dropped(t) => /\ \A el \in Elements : Data(dragcount, el) = 0
                  /\ ~OwnHover(t) /\ ~RootFlag(t)

\* C6: when the browser sends a dragleave to an element only after a dragenter
\* that has not met its leave yet, no dragcount is ever < 0, whatever mounts,
\* unmounts and drops happen in between.
C6_NonNegative == \A el \in DOMAIN dragcount : dragcount[el] >= 0
\* C7: a dragenter on an element nested in the component A raises the
\* dragcount of A's element, and that of the nested element when it is itself
\* a drop target; and a dragenter inside A followed by the dragleave of the
\* boundary pair (on any other element inside A) leaves the dragcount of A's
\* element and of the root as they were before the pair.
C7_Nesting ==
  [][\A x \in InsideA :
       DragEnter(x) =>
         /\ x # "elA" => Data(dragcount', "elA") > Data(dragcount, "elA")
         /\ x = "elC" => Data(dragcount', "elC") > Data(dragcount, "elC")
         /\ \A y \in InsideA :
              (Exists(y) /\ y # x) =>
                LET back == Dispatch(Memory', listeners, y, "dragleave")
                IN /\ Data(back.cnt, "elA") = Data(dragcount, "elA")
                   /\ Data(back.cnt, Root) = Data(dragcount, Root)]_vars

\* the pointer went from A's element onto the nested drop target C
C7_Witness ==
  /\ "C" \in mounted
  /\ pending["elA"] = 1 /\ pending["elC"] = 1
  /\ Data(dragcount, "elC") > 0
  /\ Data(dragcount, "elA") > Data(dragcount, "elC")
\* C8: when n > 1 files are dropped on a component with allowMultiple=false,
\* no callback is invoked with any file but the first of the list, the first
\* is delivered at most once, and the output is that file or none.
C8_SingleFileCoercion ==
  \A t \in mounted :
    (Dropped(t) /\ Len(DroppedFiles) > 1 /\ ~config[t].allowMultiple) =>
      /\ \A i \in 1..Len(calls) :
           (calls[i].by = t /\ calls[i].what \in {"fileDropped", "invalidFileType"})
             => calls[i].file = DroppedFiles[1]
      /\ Count(t, "fileDropped", DroppedFiles[1]) <= 1
      /\ Completed(t) => inst[t].file \in {None, Some(DroppedFiles[1])}
      /\ inst[t].files = None

\* two files were dropped on a single-file component, the first was delivered
C8_Witness ==
  /\ DroppedFiles = <<"png", "raw">>
  /\ ~config["A"].allowMultiple
  /\ Count("A", "fileDropped", "png") = 1
  /\ inst["A"].file = Some("png")

C10_EmptyDrop ==
  [][\A el \in Elements, k \in Kinds :
       Drop(el, << >>, k) =>
         /\ \A t \in Targets : /\ inst'[t].isDropped = inst[t].isDropped
                                /\ inst'[t].file = inst[t].file
                                /\ inst'[t].files = inst[t].files
         /\ \A i \in 1..Len(calls') : calls'[i].what = "drop"]_vars

\* an empty drop on a component that holds the result of an earlier drop
C10_Witness ==
  /\ lastDrop # None /\ DroppedFiles = << >>
  /\ Dropped("A")
  /\ inst["A"].isDropped /\ inst["A"].file # None

\* the dragcount that calculateDropCount keeps for the element of t
HoverCounter(t) == Data(dragcount, Element(t))

\* C11: a dragover on a target's own element reports "copy" exactly when that
\* target's dragcount is > 0 and "none" otherwise, and changes no counter and
\* no flag.
C11_DragOverAffordance ==
  [][\A t \in mounted :
       DragOver(Element(t)) =>
         /\ dropEffect' = Some(IF HoverCounter(t) > 0 THEN "copy" ELSE "none")
         /\ UNCHANGED <<dragcount, dragOverClass, inst, draggingClass>>]_vars

\* the handlers that the instance t has in the registry of the root
Registered(ls, bls, t) ==
  <<SelectSeq(ls, LAMBDA h : h = t), SelectSeq(bls, LAMBDA h : h.id = t)>>

\* the event callbacks (dragStart, dragOver, drop) that ran for the last event
Callbacks == {calls[i].by : i \in {j \in 1..Len(calls) :
                                     calls[j].what \in {"dragStart", "dragOver", "drop"}}}

\* every handler in the registry, and every callback that ran for the last
\* event, belongs to a mounted instance
OnlyMounted ==
  /\ \A t \in Targets \ mounted : Registered(listeners, bodyListeners, t) = << << >>, << >> >>
  /\ Callbacks \subseteq mounted

\* C12: unmounting A removes every listener that A registered, so that no
\* callback of A runs for any later event, and leaves every listener of every
\* other mounted target registered.
C12_DetachIsolation ==
  [][/\ OnlyMounted'
     /\ \A a \in mounted \ mounted' : \A b \in mounted' :
          Registered(listeners', bodyListeners', b) = Registered(listeners, bodyListeners, b)]_vars

\* the instances that have a dragenter/dragleave handler in the registry
Counting == Range(listeners)

\* C13: running the listener registration of an instance a second time leaves
\* the registry as it was, and a later dragenter or dragleave is counted once
\* for each instance: it moves the dragcount of the root by one per instance.
C13_IdempotentAttach ==
  [][/\ \A t \in mounted :
          Attach(t) => Registered(listeners', bodyListeners', t)
                         = Registered(listeners, bodyListeners, t)
     /\ \A el \in Elements :
          /\ DragEnter(el) => Data(dragcount', Root) - Data(dragcount, Root) = Cardinality(Counting)
          /\ DragLeave(el) => Data(dragcount, Root) - Data(dragcount', Root) = Cardinality(Counting)]_vars

\* the last step raised a TypeError
Raised == \E i \in 1..Len(calls) : calls[i].what = "TypeError"

\* C14: the teardown of an instance whose listeners are not registered (torn
\* down before, or never registered) raises no error and leaves the registry,
\* every counter and every flag as they were.
C14_IdempotentTeardown ==
  [][\A t \in Targets :
       Teardown(t) =>
         /\ ~Raised'
         /\ UNCHANGED <<listeners, bodyListeners, dragcount, dragOverClass, inst,
                        draggingClass>>]_vars

\* the files of the last drop that pass the filter of t: the list, cut to its
\* first file when allowMultiple=false, without the files of a rejected type
AcceptedFiles(t) ==
  LET kept == IF Single(DroppedFiles, config[t].allowMultiple)
              THEN <<DroppedFiles[1]>> ELSE DroppedFiles
  IN Accepted(kept, config[t].allowedTypes)

\* C15: after a drop of a non-empty list, a target with allowMultiple=true
\* has files equal to the accepted files in order, and a target with
\* allowMultiple=false has file equal to the first accepted file, or absent
\* if there is none.
C15_ResultExposure ==
  \A t \in mounted :
    (Dropped(t) /\ DroppedFiles # << >>) =>
      IF config[t].allowMultiple
      THEN inst[t].files = Some(AcceptedFiles(t))
      ELSE inst[t].file = (IF AcceptedFiles(t) = << >> THEN None
                           ELSE Some(Head(AcceptedFiles(t))))

\* the step is a drop of a non-empty list that drop(e) of t handled
NonEmptyDropOn(t) == (Dropped(t) /\ DroppedFiles # << >>)'

\* C16 (part_000): isDropped of a target is true exactly when the target has
\* handled a drop of a non-empty list before: such a drop makes it true, no
\* other step makes it true, and it stays true while the instance lives; and
\* a dragenter on the element of a target that has isDropped makes its hover
\* flag true.
C16_IsDroppedSticky ==
  [][variant = Current =>
       \A t \in mounted \cap mounted' :
         /\ NonEmptyDropOn(t) => inst'[t].isDropped
         /\ (~inst[t].isDropped /\ inst'[t].isDropped) => NonEmptyDropOn(t)
         /\ inst[t].isDropped => inst'[t].isDropped
         /\ (inst[t].isDropped /\ DragEnter(Element(t))) => inst'[t].isDraggingOver]_vars

\* what one event on el adds to the dragcount of x when it is counted once
Delta(el, x, offset) == IF x \in Range(Chain(el)) THEN offset ELSE 0

\* C17: with N >= 1 targets mounted, one dragenter changes the dragcount of
\* each element of the chain by +1, one dragleave by -1, and neither changes
\* the dragcount of an element outside the chain.
C17_PerEventDelta ==
  [][mounted # {} =>
       \A el, x \in Elements :
         /\ DragEnter(el) => Data(dragcount', x) - Data(dragcount, x) = Delta(el, x, 1)
         /\ DragLeave(el) => Data(dragcount', x) - Data(dragcount, x) = Delta(el, x, -1)]_vars

\* the files that t's accepted-file callback was invoked with, in order
Delivered(t) ==
  LET ds == SelectSeq(calls, LAMBDA c : c.by = t /\ c.what = "fileDropped")
  IN [i \in 1..Len(ds) |-> ds[i].file]

\* the places in the trace of the last drop where t did `what`
Places(t, what) == {i \in 1..Len(calls) : calls[i].by = t /\ calls[i].what = what}

\* C18: within one drop of a non-empty list on a target whose consumer has
\* supplied the callbacks, the accepted-file callback is invoked once for
\* each accepted file and for no other, in list order, after every
\* invalid-file-type notification and after isDropped was set (part_000), and
\* before file/files is assigned.
C18_CallbackOrdering ==
  \A t \in mounted :
    (Dropped(t) /\ DroppedFiles # << >> /\ config[t].hooks) =>
      /\ Delivered(t) = AcceptedFiles(t)
      /\ \A i \in Places(t, "fileDropped") :
           /\ \A j \in Places(t, "invalidFileType") : j < i
           /\ variant = Current => \E j \in Places(t, "isDropped") : j < i
           /\ \E j \in Places(t, "output") : i < j

\* C19: when drop(e) of a target a handles a drop while another target b is
\* mounted, the flags and the outputs of b (isDraggingOver, isDragging,
\* isDropped, file, files) are what they were before the drop; in part_000 the
\* dragcount of b's element is cleared all the same.
C19_DropFrame ==
  [][\A a, b \in mounted :
       (Dropped(a)' /\ ~Dropped(b)') =>
         /\ inst'[b] = inst[b]
         /\ variant = Current => Element(b) \notin DOMAIN dragcount']_vars

\* A handled a drop of a file and every dragcount is cleared, while B, whose
\* hover flag the dragenter before the drop had set, kept its flag
C19_Witness ==
  /\ variant = Current
  /\ Dropped("A") /\ inst["A"].isDropped
  /\ "B" \in mounted /\ inst["B"].isDraggingOver /\ ~inst["B"].isDropped
  /\ dragcount = << >>

Next ==
  \/ \E t \in Targets, c \in Configs : Mount(t, c)
  \/ \E t \in Targets : Unmount(t)
  \/ \E el \in Elements : DragEnter(el)
  \/ \E el \in Elements : DragLeave(el)
  \/ \E el \in Elements, files \in FileLists, kind \in Kinds : Drop(el, files, kind)

Spec == Init /\ [][Next]_vars

SpecDrops == InitDrops /\ [][Next]_vars

NextListeners ==
  \/ Next
  \/ \E el \in Elements : DragStart(el)
  \/ \E el \in Elements : DragOver(el)
  \/ \E t \in Targets : Attach(t)
  \/ \E t \in Targets : Teardown(t)

SpecListeners == InitListeners /\ [][NextListeners]_vars

====
